---- MODULE Spec2Model ----
(***************************************************************************)
(* Hotel back end: reservations, housekeeping tasks and maintenance        *)
(* requests contending for the status of a room.                           *)
(*                                                                         *)
(* The database is the state: the Room, Reservation, Housekeeping and       *)
(* Maintenance collections.  A document's _id is its position in its       *)
(* collection (no handler modelled here deletes a document).  `res' is the *)
(* HTTP response of the handler that ran last.  The updatedAt field of a   *)
(* reservation is not part of the state.                                   *)
(*                                                                         *)
(* Spec              reservation handlers, one after the other, each run   *)
(*                   to completion.                                        *)
(* SpecConflict      createReservation against one stored reservation, on  *)
(*                   a wider range of dates.                               *)
(* SpecLifecycle     the same with every stay on the same night.           *)
(* SpecOwnership     two guests and a receptionist updating reservations.  *)
(* SpecBilling       reservation handlers on dates with a time of day and  *)
(*                   on malformed dates.                                   *)
(* SpecCleaningDone  housekeeping tasks on rooms in any status; with a     *)
(*                   clock that advances in SpecTaskClock.                 *)
(* SpecMaintenance   maintenance requests on rooms in any status; with a   *)
(*                   clock that advances in SpecMaintenanceClock.          *)
(* SpecHousekeeping  housekeeping tasks beside one reservation and urgent  *)
(*                   maintenance requests, each handler run to completion. *)
(* SpecCreateConc    createReservation handlers interleaved at their       *)
(*                   awaits.                                               *)
(* SpecChainConc     createReservation, checkIn and checkOut handlers on   *)
(*                   one room interleaved at their awaits; with storage    *)
(*                   calls that can fail in SpecChainFails.                *)
(* SpecStaleConc     the same beside a task completion, an issue           *)
(*                   resolution and an urgent createRequest.               *)
(***************************************************************************)
EXTENDS Integers, Sequences, FiniteSets, TLC

VARIABLES
  rooms,         \* the Room collection: _id -> document
  reservations,  \* the Reservation collection, in order of creation
  tasks,         \* the Housekeeping collection, in order of creation
  requests,      \* the Maintenance collection, in order of creation
  res,           \* the response of the handler that ran last
  now,           \* Date.now()
  handlers       \* the handlers in flight (SpecCreateConc only)

vars == <<rooms, reservations, tasks, requests, res, now, handlers>>

\* what the reservation handlers never touch
housekeepingVars == <<tasks, requests, now, handlers>>

----------------------------------------------------------------------------
(* Bounds of the model *)

\* most reservations ever created
MaxRes == 2
\* dates are whole days 0 .. MaxDay after some epoch
MaxDay == 2
\* most housekeeping tasks ever created
MaxTasks == 1

----------------------------------------------------------------------------
(* Values *)

\* 1000 * 60 * 60 * 24 in the source; Date values are milliseconds
DayMs == 1000 * 60 * 60 * 24

Dates == {d * DayMs : d \in 0..MaxDay}

\* a request field that is missing, and a date string Date cannot parse (NaN)
Absent == -1
InvalidDate == -2
DateInputs == Dates \cup {Absent, InvalidDate}

NoString == "absent"

RoomIds == {1, 2}
\* a well-formed id of no room
UnknownRoom == 3
RoomStatuses == {"available", "reserved", "occupied", "cleaning", "maintenance"}

ReservationStatuses == {"confirmed", "checked-in", "checked-out", "cancelled"}
\* the Reservation schema's default for status
DefaultReservationStatus == "confirmed"

Guest1 == [_id |-> "g1", role |-> "guest"]
Guest2 == [_id |-> "g2", role |-> "guest"]
Receptionist == [_id |-> "s1", role |-> "receptionist"]
Housekeeper1 == [_id |-> "h1", role |-> "housekeeping"]
Housekeeper2 == [_id |-> "h2", role |-> "housekeeping"]
Manager == [_id |-> "m1", role |-> "manager"]

NoResponse == [op |-> "none", code |-> 0, message |-> "none"]

\* res.status(code).json({ message }) of handler op
Response(op, code, message) == [op |-> op, code |-> code, message |-> message]

----------------------------------------------------------------------------
(* Initial state: the inventory is set up, nothing is booked *)

InitRooms ==
  [r \in RoomIds |->
     [status |-> "available", pricePerNight |-> 100 * r, maxOccupancy |-> 2]]

Init ==
  /\ rooms = InitRooms
  /\ reservations = <<>>
  /\ tasks = <<>>
  /\ requests = <<>>
  /\ res = NoResponse
  /\ now = 0
  /\ handlers = <<>>

----------------------------------------------------------------------------
(* createReservation *)

\* status: { $in: ['confirmed', 'checked-in'] }
BlockingStatuses == {"confirmed", "checked-in"}

\* the $or with its third clause, the stay that contains the request, left out
DateClausesNoContain(e, checkIn, checkOut) ==
  \/ (e.checkInDate < checkOut /\ e.checkInDate >= checkIn)
  \/ (e.checkOutDate > checkIn /\ e.checkOutDate <= checkOut)

\* the $or with $lte and $gte where the source has $lt and $gt
DateClausesInclusive(e, checkIn, checkOut) ==
  \/ (e.checkInDate <= checkOut /\ e.checkInDate >= checkIn)
  \/ (e.checkOutDate >= checkIn /\ e.checkOutDate <= checkOut)
  \/ (e.checkInDate <= checkIn /\ e.checkOutDate >= checkOut)

\* the $or of the conflict query, on one stored reservation
DateClauses(e, checkIn, checkOut) ==
  \/ (e.checkInDate < checkOut /\ e.checkInDate >= checkIn)
  \/ (e.checkOutDate > checkIn /\ e.checkOutDate <= checkOut)
  \/ (e.checkInDate <= checkIn /\ e.checkOutDate >= checkOut)

\* the filter with only confirmed reservations blocking
ConflictFilterConfirmedOnly(e, roomId, checkIn, checkOut) ==
  /\ e.roomId = roomId
  /\ e.status = "confirmed"
  /\ DateClauses(e, checkIn, checkOut)

\* the filter of Reservation.findOne, on one stored reservation
ConflictFilter(e, roomId, checkIn, checkOut) ==
  /\ e.roomId = roomId
  /\ e.status \in BlockingStatuses
  /\ DateClauses(e, checkIn, checkOut)

\* Reservation.findOne({...}) finds a document
conflictingReservation(all, roomId, checkIn, checkOut) ==
  \E i \in 1..Len(all) : ConflictFilter(all[i], roomId, checkIn, checkOut)

\* Math.ceil(x / y) for x >= 0, y > 0
Ceil(x, y) == (x + y - 1) \div y

\* nights rounded down: a partial day is not charged
nightsRoundedDown(checkIn, checkOut) == (checkOut - checkIn) \div DayMs

nights(checkIn, checkOut) == Ceil(checkOut - checkIn, DayMs)

totalAmount(room, checkIn, checkOut) ==
  room.pricePerNight * nights(checkIn, checkOut)

\* req.user.role === 'guest' ? req.user._id : (req.body.guestId || req.user._id)
guestIdOf(user, body) ==
  IF user.role = "guest" THEN user._id
  ELSE IF body.guestId # NoString THEN body.guestId ELSE user._id

NewReservation(user, body, room) ==
  [guestId |-> guestIdOf(user, body),
   roomId |-> body.roomId,
   checkInDate |-> body.checkInDate,
   checkOutDate |-> body.checkOutDate,
   numberOfGuests |-> body.numberOfGuests,
   totalAmount |-> totalAmount(room, body.checkInDate, body.checkOutDate),
   specialRequests |-> body.specialRequests,
   status |-> DefaultReservationStatus]

\* a claim that only takes a room that is free
ClaimRoomIfAvailable(rs, roomId) ==
  IF rs[roomId].status = "available"
    THEN [rs EXCEPT ![roomId].status = "reserved"] ELSE rs

\* room.status = 'reserved'; await room.save()
ClaimRoom(rs, roomId) == [rs EXCEPT ![roomId].status = "reserved"]

\* the checks without the one on the order of the dates
createValidationAnyOrder(body) ==
  IF body.roomId = Absent THEN "Room is required"
  ELSE IF body.checkInDate = Absent THEN "Check-in date is required"
  ELSE IF body.checkOutDate = Absent THEN "Check-out date is required"
  ELSE IF body.checkInDate = InvalidDate THEN "Invalid check-in date format"
  ELSE IF body.checkOutDate = InvalidDate THEN "Invalid check-out date format"
  ELSE "ok"

\* the checks before the first await; "ok" when all pass
createValidation(body) ==
  IF body.roomId = Absent THEN "Room is required"
  ELSE IF body.checkInDate = Absent THEN "Check-in date is required"
  ELSE IF body.checkOutDate = Absent THEN "Check-out date is required"
  ELSE IF body.checkInDate = InvalidDate THEN "Invalid check-in date format"
  ELSE IF body.checkOutDate = InvalidDate THEN "Invalid check-out date format"
  ELSE IF body.checkOutDate <= body.checkInDate
    THEN "Check-out date must be after check-in date"
  ELSE "ok"

Fail(op, code, message) ==
  /\ res' = Response(op, code, message)
  /\ UNCHANGED <<rooms, reservations, housekeepingVars>>

createReservation(user, body) ==
  LET v == createValidation(body) IN
  IF v # "ok" THEN Fail("createReservation", 400, v)
  ELSE IF body.roomId \notin DOMAIN rooms
    THEN Fail("createReservation", 404, "Room not found")
  ELSE IF body.numberOfGuests > rooms[body.roomId].maxOccupancy
    THEN Fail("createReservation", 400, "Room can only accommodate")
  ELSE IF conflictingReservation(reservations, body.roomId,
                                 body.checkInDate, body.checkOutDate)
    THEN Fail("createReservation", 400,
              "Room is not available for the selected dates")
  ELSE /\ reservations' =
            Append(reservations, NewReservation(user, body, rooms[body.roomId]))
       /\ rooms' = ClaimRoom(rooms, body.roomId)
       /\ res' = Response("createReservation", 201, "ok")
       /\ UNCHANGED housekeepingVars

----------------------------------------------------------------------------
(* checkIn, checkOut *)

\* Reservation.findById(req.params.id) finds a document
Found(all, id) == id \in 1..Len(all)

\* reservation.status = s; await reservation.save()
SetReservationStatus(all, id, s) == [all EXCEPT ![id].status = s]

\* room.status = s; await room.save(), on the room of the reservation
SetRoomStatus(rs, roomId, s) == [rs EXCEPT ![roomId].status = s]

\* a checkIn that also accepts a stay that is over
mayCheckInLoose(reservation) == reservation.status \in {"confirmed", "checked-out"}

\* the negation of: reservation.status !== 'confirmed'
mayCheckIn(reservation) == reservation.status = "confirmed"

\* a checkOut that also accepts a stay that has not begun
mayCheckOutLoose(reservation) == reservation.status \in {"confirmed", "checked-in"}

\* the negation of: reservation.status !== 'checked-in'
mayCheckOut(reservation) == reservation.status = "checked-in"

checkIn(id) ==
  IF ~Found(reservations, id)
    THEN Fail("checkIn", 404, "Reservation not found")
  ELSE IF ~mayCheckIn(reservations[id])
    THEN Fail("checkIn", 400, "Only confirmed reservations can be checked in")
  ELSE /\ reservations' = SetReservationStatus(reservations, id, "checked-in")
       /\ rooms' = SetRoomStatus(rooms, reservations[id].roomId, "occupied")
       /\ res' = Response("checkIn", 200, "ok")
       /\ UNCHANGED housekeepingVars

checkOut(id) ==
  IF ~Found(reservations, id)
    THEN Fail("checkOut", 404, "Reservation not found")
  ELSE IF ~mayCheckOut(reservations[id])
    THEN Fail("checkOut", 400,
              "Only checked-in reservations can be checked out")
  ELSE /\ reservations' = SetReservationStatus(reservations, id, "checked-out")
       /\ rooms' = SetRoomStatus(rooms, reservations[id].roomId, "cleaning")
       /\ res' = Response("checkOut", 200, "ok")
       /\ UNCHANGED housekeepingVars

----------------------------------------------------------------------------
(* updateReservation *)

\* a guard without the ownership check
guestGuardNoOwner(user, reservation, body) ==
  IF user.role # "guest" THEN "ok"
  ELSE IF body.status # NoString /\ body.status # "cancelled"
    THEN "Guests can only cancel reservations"
  ELSE "ok"

\* a guard without the check of the requested status
guestGuardAnyStatus(user, reservation, body) ==
  IF user.role # "guest" THEN "ok"
  ELSE IF reservation.guestId # user._id THEN "Not authorized"
  ELSE "ok"

\* the two 403 checks on a guest's request; "ok" when both pass
guestGuard(user, reservation, body) ==
  IF user.role # "guest" THEN "ok"
  ELSE IF reservation.guestId # user._id THEN "Not authorized"
  ELSE IF body.status # NoString /\ body.status # "cancelled"
    THEN "Guests can only cancel reservations"
  ELSE "ok"

\* if (req.body.status) ...; if (req.body.specialRequests) ...
UpdateFields(reservation, body) ==
  [reservation EXCEPT
     !.status = IF body.status # NoString THEN body.status ELSE @,
     !.specialRequests =
        IF body.specialRequests # NoString THEN body.specialRequests ELSE @]

\* an update that frees the room of a reservation it cancels
updateReservationReleasing(user, id, body) ==
  IF ~Found(reservations, id)
    THEN Fail("updateReservation", 404, "Reservation not found")
  ELSE LET g == guestGuard(user, reservations[id], body) IN
    IF g # "ok" THEN Fail("updateReservation", 403, g)
    ELSE /\ reservations' =
              [reservations EXCEPT ![id] = UpdateFields(reservations[id], body)]
         /\ rooms' = IF body.status = "cancelled"
                       THEN SetRoomStatus(rooms, reservations[id].roomId,
                                          "available")
                       ELSE rooms
         /\ res' = Response("updateReservation", 200, "ok")
         /\ UNCHANGED housekeepingVars

updateReservation(user, id, body) ==
  IF ~Found(reservations, id)
    THEN Fail("updateReservation", 404, "Reservation not found")
  ELSE LET g == guestGuard(user, reservations[id], body) IN
    IF g # "ok" THEN Fail("updateReservation", 403, g)
    ELSE /\ reservations' =
              [reservations EXCEPT ![id] = UpdateFields(reservations[id], body)]
         /\ res' = Response("updateReservation", 200, "ok")
         /\ UNCHANGED <<rooms, housekeepingVars>>

----------------------------------------------------------------------------
(* Requests of the sequential specification *)

CreateBodies ==
  [roomId : RoomIds \cup {UnknownRoom},
   checkInDate : Dates,
   checkOutDate : Dates,
   numberOfGuests : {2, 3},
   guestId : {NoString, "g1"},
   specialRequests : {NoString}]

UpdateBodies ==
  [status : ReservationStatuses \cup {NoString},
   specialRequests : {NoString}]

ReservationIds == 1..(MaxRes + 1)

CreateReservation ==
  /\ Len(reservations) < MaxRes
  /\ \E user \in {Guest1, Receptionist}, body \in CreateBodies :
       createReservation(user, body)

CheckIn == \E id \in ReservationIds : checkIn(id)

CheckOut == \E id \in ReservationIds : checkOut(id)

UpdateReservation ==
  \E user \in {Guest1, Receptionist}, id \in ReservationIds,
     body \in UpdateBodies :
       updateReservation(user, id, body)

Next == CreateReservation \/ CheckIn \/ CheckOut \/ UpdateReservation

Spec == Init /\ [][Next]_vars

----------------------------------------------------------------------------
(* SpecLifecycle: the life cycle of the reservations alone.  Every stay is  *)
(* the same night, booked by a guest; a receptionist sets statuses.         *)

\* most reservations ever created in SpecLifecycle
MaxLifeRes == 2

LifeBodies ==
  [roomId : RoomIds,
   checkInDate : {0},
   checkOutDate : {DayMs},
   numberOfGuests : {2},
   guestId : {NoString},
   specialRequests : {NoString}]

LifeIds == 1..(MaxLifeRes + 1)

LifeCreate ==
  /\ Len(reservations) < MaxLifeRes
  /\ \E body \in LifeBodies : createReservation(Guest1, body)

LifeCheckIn == \E id \in LifeIds : checkIn(id)

LifeCheckOut == \E id \in LifeIds : checkOut(id)

LifeUpdate ==
  \E id \in LifeIds, body \in UpdateBodies :
    updateReservation(Receptionist, id, body)

NextLifecycle == LifeCreate \/ LifeCheckIn \/ LifeCheckOut \/ LifeUpdate

SpecLifecycle == Init /\ [][NextLifecycle]_vars

----------------------------------------------------------------------------
(* SpecOwnership: two guests book the same night; guests and a receptionist *)
(* update the reservations.                                                 *)

\* most reservations ever created in SpecOwnership
MaxOwnRes == 1

OwnBodies ==
  [roomId : RoomIds,
   checkInDate : {0},
   checkOutDate : {DayMs},
   numberOfGuests : {2},
   guestId : {NoString},
   specialRequests : {NoString}]

OwnUpdates ==
  [status : ReservationStatuses \cup {NoString},
   specialRequests : {NoString, "late arrival"}]

OwnResIds == 1..(MaxOwnRes + 1)

OwnCreate ==
  /\ Len(reservations) < MaxOwnRes
  /\ \E user \in {Guest1, Guest2}, body \in OwnBodies :
       createReservation(user, body)

OwnUpdate ==
  \E user \in {Guest1, Guest2, Receptionist}, id \in OwnResIds,
     body \in OwnUpdates :
       updateReservation(user, id, body)

NextOwnership == OwnCreate \/ OwnUpdate

SpecOwnership == Init /\ [][NextOwnership]_vars

----------------------------------------------------------------------------
(* SpecBilling: reservations whose dates carry a time of day, so that a     *)
(* stay can end on a partial day, and requests with missing, unparsable and *)
(* non-chronological dates.                                                 *)

\* most reservations ever created in SpecBilling
MaxBillRes == 1

HalfDayMs == DayMs \div 2

\* midnight and noon of the first days, and midnight three days on
BillDates == {0, HalfDayMs, DayMs, 3 * HalfDayMs, 3 * DayMs}

BillBodies ==
  [roomId : RoomIds \cup {UnknownRoom},
   checkInDate : BillDates \cup {Absent, InvalidDate},
   checkOutDate : BillDates \cup {Absent, InvalidDate},
   numberOfGuests : {2},
   guestId : {NoString},
   specialRequests : {NoString}]

BillResIds == 1..(MaxBillRes + 1)

BillCreate ==
  /\ Len(reservations) < MaxBillRes
  /\ \E body \in BillBodies : createReservation(Guest1, body)

BillCheckIn == \E id \in BillResIds : checkIn(id)

BillCheckOut == \E id \in BillResIds : checkOut(id)

BillUpdate ==
  \E id \in BillResIds, body \in UpdateBodies :
    updateReservation(Receptionist, id, body)

NextBilling == BillCreate \/ BillCheckIn \/ BillCheckOut \/ BillUpdate

SpecBilling == Init /\ [][NextBilling]_vars

----------------------------------------------------------------------------

(* SpecConflict: the conflict test of createReservation on a wider range of *)
(* dates.  The database starts with one stored reservation of any room,     *)
(* interval and status, its room as that reservation's life cycle left it.  *)

\* dates of SpecConflict are whole days 0 .. MaxProbeDay
MaxProbeDay == 3
\* most reservations in SpecConflict, the stored one included
MaxProbeRes == 2

ProbeDates == {d * DayMs : d \in 0..MaxProbeDay}

\* the room status written by the handler that gave a reservation status s
RoomStatusAfter(s) ==
  CASE s = "confirmed" -> "reserved"
    [] s = "checked-in" -> "occupied"
    [] s = "checked-out" -> "cleaning"
    [] OTHER -> "reserved"

StoredReservation(roomId, checkInDate, checkOutDate, s) ==
  [NewReservation(Guest1,
                  [roomId |-> roomId, checkInDate |-> checkInDate,
                   checkOutDate |-> checkOutDate,
                   numberOfGuests |-> 2,
                   guestId |-> NoString, specialRequests |-> NoString],
                  InitRooms[roomId])
     EXCEPT !.status = s]

InitConflict ==
  /\ \E roomId \in RoomIds, checkInDate \in ProbeDates, checkOutDate \in ProbeDates,
        s \in ReservationStatuses :
       /\ checkInDate < checkOutDate
       /\ reservations = <<StoredReservation(roomId, checkInDate, checkOutDate, s)>>
       /\ rooms = SetRoomStatus(InitRooms, roomId, RoomStatusAfter(s))
  /\ tasks = <<>>
  /\ requests = <<>>
  /\ res = NoResponse
  /\ now = 0
  /\ handlers = <<>>

ProbeBodies ==
  [roomId : RoomIds,
   checkInDate : ProbeDates,
   checkOutDate : ProbeDates,
   numberOfGuests : {2},
   guestId : {"g1"},
   specialRequests : {NoString}]

ProbeCreate ==
  /\ Len(reservations) < MaxProbeRes
  /\ \E body \in ProbeBodies : createReservation(Receptionist, body)

NextConflict == ProbeCreate

SpecConflict == InitConflict /\ [][NextConflict]_vars

----------------------------------------------------------------------------
(* Housekeeping tasks: createTask, updateTask *)

TaskTypes == {"cleaning", "maintenance", "inspection", "deep-cleaning"}
TaskStatuses == {"pending", "in-progress", "completed", "cancelled"}

\* Housekeeping.create({...}); status, createdAt and updatedAt by default
NewTask(body) ==
  [roomId |-> body.roomId,
   assignedTo |-> body.assignedTo,
   taskType |-> body.taskType,
   status |-> "pending",
   scheduledDate |-> body.scheduledDate,
   completedDate |-> Absent,
   notes |-> body.notes,
   priority |-> IF body.priority # NoString THEN body.priority ELSE "medium",
   createdAt |-> now,
   updatedAt |-> now]

createTask(user, body) ==
  IF body.roomId \notin DOMAIN rooms
    THEN /\ res' = Response("createTask", 404, "Room not found")
         /\ UNCHANGED <<rooms, reservations, tasks, requests, now, handlers>>
  ELSE /\ tasks' = Append(tasks, NewTask(body))
       /\ res' = Response("createTask", 201, "ok")
       /\ UNCHANGED <<rooms, reservations, requests, now, handlers>>

\* task.assignedTo && task.assignedTo.toString() !== req.user._id.toString()
assignedToOther(task, user) ==
  task.assignedTo # NoString /\ task.assignedTo # user._id

\* the housekeeping branch: status and notes, completedDate on 'completed'
workerUpdate(task, body) ==
  [task EXCEPT
     !.status = IF body.status # NoString THEN body.status ELSE @,
     !.notes = IF body.notes # NoString THEN body.notes ELSE @,
     !.completedDate = IF body.status = "completed" THEN now ELSE @]

\* Object.keys(req.body).forEach(key => task[key] = req.body[key])
copyAllFields(task, body) ==
  [task EXCEPT
     !.status = IF body.status # NoString THEN body.status ELSE @,
     !.notes = IF body.notes # NoString THEN body.notes ELSE @,
     !.assignedTo = IF body.assignedTo # NoString THEN body.assignedTo ELSE @,
     !.taskType = IF body.taskType # NoString THEN body.taskType ELSE @,
     !.roomId = IF body.roomId # Absent THEN body.roomId ELSE @,
     !.completedDate = IF body.completedDate # Absent THEN body.completedDate
                       ELSE @]

\* the other branch: every field, completedDate on 'completed' if unset
managerUpdate(task, body) ==
  LET t == copyAllFields(task, body) IN
  [t EXCEPT
     !.completedDate =
        IF body.status = "completed" /\ t.completedDate = Absent THEN now ELSE @]

\* a completion that frees the room whatever its status
cleaningDoneUnguarded(rs, roomId) ==
  IF roomId \in DOMAIN rs THEN [rs EXCEPT ![roomId].status = "available"] ELSE rs

\* if (room && room.status === 'cleaning') room.status = 'available'
cleaningDone(rs, roomId) ==
  IF roomId \in DOMAIN rs /\ rs[roomId].status = "cleaning"
    THEN [rs EXCEPT ![roomId].status = "available"] ELSE rs

\* task.status === 'completed' && task.taskType === 'cleaning'
isCompletedCleaning(task) ==
  task.status = "completed" /\ task.taskType = "cleaning"

updateTask(user, id, body) ==
  IF ~Found(tasks, id)
    THEN /\ res' = Response("updateTask", 404, "Task not found")
         /\ UNCHANGED <<rooms, reservations, tasks, requests, now, handlers>>
  ELSE IF user.role = "housekeeping" /\ assignedToOther(tasks[id], user)
    THEN /\ res' = Response("updateTask", 403,
                            "Not authorized to update this task")
         /\ UNCHANGED <<rooms, reservations, tasks, requests, now, handlers>>
  ELSE LET updated == IF user.role = "housekeeping"
                        THEN workerUpdate(tasks[id], body)
                        ELSE managerUpdate(tasks[id], body)
           saved == [updated EXCEPT !.updatedAt = now]
       IN /\ tasks' = [tasks EXCEPT ![id] = saved]
          /\ rooms' = IF isCompletedCleaning(saved)
                        THEN cleaningDone(rooms, saved.roomId) ELSE rooms
          /\ res' = Response("updateTask", 200, "ok")
          /\ UNCHANGED <<reservations, requests, now, handlers>>

----------------------------------------------------------------------------
(* Maintenance requests: createRequest *)

\* Maintenance.create({...}); status and reportedAt by default
NewRequest(user, body) ==
  [roomId |-> body.roomId,
   reportedBy |-> user._id,
   issueType |-> body.issueType,
   description |-> body.description,
   priority |-> IF body.priority # NoString THEN body.priority ELSE "medium",
   status |-> "reported",
   assignedTo |-> NoString,
   estimatedCost |-> Absent,
   actualCost |-> Absent,
   reportedAt |-> now,
   resolvedAt |-> Absent,
   notes |-> NoString]

\* an urgent issue that takes the room only when it is free
urgentIssueOpenedIfAvailable(rs, body) ==
  IF body.priority = "urgent" /\ rs[body.roomId].status = "available"
    THEN [rs EXCEPT ![body.roomId].status = "maintenance"] ELSE rs

\* if (priority === 'urgent') room.status = 'maintenance'
urgentIssueOpened(rs, body) ==
  IF body.priority = "urgent"
    THEN [rs EXCEPT ![body.roomId].status = "maintenance"] ELSE rs

createRequest(user, body) ==
  IF body.roomId \notin DOMAIN rooms
    THEN /\ res' = Response("createRequest", 404, "Room not found")
         /\ UNCHANGED <<rooms, reservations, tasks, requests, now, handlers>>
  ELSE /\ requests' = Append(requests, NewRequest(user, body))
       /\ rooms' = urgentIssueOpened(rooms, body)
       /\ res' = Response("createRequest", 201, "ok")
       /\ UNCHANGED <<reservations, tasks, now, handlers>>

----------------------------------------------------------------------------
(* Maintenance requests: updateRequest *)

RequestStatuses == {"reported", "assigned", "in-progress", "resolved", "cancelled"}
Priorities == {"low", "medium", "high", "urgent"}

Admin == [_id |-> "a1", role |-> "admin"]

\* ['assigned', 'in-progress', 'resolved', 'cancelled'].includes(req.body.status)
\* && !['admin', 'manager'].includes(req.user.role)
statusNeedsPrivilege(user, body) ==
  /\ body.status \in {"assigned", "in-progress", "resolved", "cancelled"}
  /\ user.role \notin {"admin", "manager"}

\* the six assignments and the stamp of resolvedAt
requestFields(request, body) ==
  [request EXCEPT
     !.status = IF body.status # NoString THEN body.status ELSE @,
     !.assignedTo = IF body.assignedTo # NoString THEN body.assignedTo ELSE @,
     !.priority = IF body.priority # NoString THEN body.priority ELSE @,
     !.estimatedCost = IF body.estimatedCost # Absent THEN body.estimatedCost
                       ELSE @,
     !.actualCost = IF body.actualCost # Absent THEN body.actualCost ELSE @,
     !.notes = IF body.notes # NoString THEN body.notes ELSE @,
     !.resolvedAt = IF body.status = "resolved" THEN now ELSE @]

\* a resolution that frees the room whatever its status
issueResolvedUnguarded(rs, roomId) ==
  IF roomId \in DOMAIN rs THEN [rs EXCEPT ![roomId].status = "available"] ELSE rs

\* if (room && room.status === 'maintenance') room.status = 'available'
issueResolved(rs, roomId) ==
  IF roomId \in DOMAIN rs /\ rs[roomId].status = "maintenance"
    THEN [rs EXCEPT ![roomId].status = "available"] ELSE rs

\* the validators of maintenanceSchema that request.save() runs
requestIsValid(request) ==
  /\ request.status \in RequestStatuses
  /\ request.priority \in Priorities
  /\ request.estimatedCost = Absent \/ request.estimatedCost >= 0
  /\ request.actualCost = Absent \/ request.actualCost >= 0

\* room.save() comes before request.save(): when request.save() rejects the
\* document, the room keeps what the resolution wrote
updateRequest(user, id, body) ==
  IF ~Found(requests, id)
    THEN /\ res' = Response("updateRequest", 404, "Maintenance request not found")
         /\ UNCHANGED <<rooms, reservations, tasks, requests, now, handlers>>
  ELSE IF statusNeedsPrivilege(user, body)
    THEN /\ res' = Response("updateRequest", 403,
                            "Only admin/manager can update status")
         /\ UNCHANGED <<rooms, reservations, tasks, requests, now, handlers>>
  ELSE LET updated == requestFields(requests[id], body) IN
       /\ rooms' = IF body.status = "resolved"
                     THEN issueResolved(rooms, requests[id].roomId) ELSE rooms
       /\ IF requestIsValid(updated)
            THEN /\ requests' = [requests EXCEPT ![id] = updated]
                 /\ res' = Response("updateRequest", 200, "ok")
            ELSE /\ requests' = requests
                 /\ res' = Response("updateRequest", 500, "Server error")
       /\ UNCHANGED <<reservations, tasks, now, handlers>>

----------------------------------------------------------------------------
(* SpecMaintenance: maintenance requests on room 1.  Room 1 starts in any   *)
(* status the other handlers can have left it in, room 2 free or under      *)
(* maintenance.  The clock stands still.  SpecMaintenanceClock is the same  *)
(* with a clock that advances.                                              *)

\* most maintenance requests ever created in SpecMaintenance
MaxRequests == 1
\* the clock of SpecMaintenanceClock runs from 0 to MaxClock
MaxClock == 1

MtRequestBodies ==
  [roomId : {1, UnknownRoom},
   issueType : {"plumbing"},
   description : {"leak"},
   priority : {NoString, "urgent"}]

\* a cost below the schema's minimum comes only with a resolution
RequestUpdates ==
  {body \in [status : RequestStatuses \cup {NoString},
             assignedTo : {NoString},
             priority : {NoString, "low"},
             estimatedCost : {Absent, -5},
             actualCost : {Absent},
             notes : {NoString}] :
     body.estimatedCost = Absent \/ body.status = "resolved"}

RequestIds == 1..(MaxRequests + 1)

InitMaintenance ==
  /\ \E s1 \in RoomStatuses, s2 \in {"available", "maintenance"} :
       rooms = SetRoomStatus(SetRoomStatus(InitRooms, 1, s1), 2, s2)
  /\ reservations = <<>>
  /\ tasks = <<>>
  /\ requests = <<>>
  /\ res = NoResponse
  /\ now = 0
  /\ handlers = <<>>

MtCreateRequest ==
  /\ Len(requests) < MaxRequests
  /\ \E body \in MtRequestBodies : createRequest(Guest1, body)

UpdateRequest ==
  \E user \in {Guest1, Manager, Admin}, id \in RequestIds,
     body \in RequestUpdates :
       updateRequest(user, id, body)

\* time passes between two requests
Tick ==
  /\ now < MaxClock
  /\ now' = now + 1
  /\ UNCHANGED <<rooms, reservations, tasks, requests, res, handlers>>

NextMaintenance == MtCreateRequest \/ UpdateRequest

SpecMaintenance == InitMaintenance /\ [][NextMaintenance]_vars

NextMaintenanceClock == MtCreateRequest \/ UpdateRequest \/ Tick

SpecMaintenanceClock == InitMaintenance /\ [][NextMaintenanceClock]_vars

----------------------------------------------------------------------------

(* SpecHousekeeping: tasks on the rooms, beside one booking of room 1 that  *)
(* is checked in and out and maintenance requests that are opened and       *)
(* updated.  The clock stands still.                                        *)

\* most reservations in SpecHousekeeping
MaxHkRes == 1
\* most maintenance requests in SpecHousekeeping
MaxHkRequests == 1

HkBooking ==
  [roomId |-> 1, checkInDate |-> 0, checkOutDate |-> DayMs,
   numberOfGuests |-> 2, guestId |-> "g1", specialRequests |-> NoString]

TaskBodies ==
  [roomId : {1},
   taskType : {"cleaning", "inspection"},
   scheduledDate : {0},
   priority : {NoString},
   notes : {NoString},
   assignedTo : {NoString, "h1"}]

TaskUpdates ==
  [status : TaskStatuses \cup {NoString},
   notes : {NoString},
   assignedTo : {NoString},
   taskType : {NoString, "cleaning"},
   roomId : {Absent},
   completedDate : {Absent}]

TaskIds == 1..(MaxTasks + 1)

RequestBodies ==
  [roomId : {1},
   issueType : {"plumbing"},
   description : {"leak"},
   priority : {NoString, "urgent"}]

HkCreateReservation ==
  /\ Len(reservations) < MaxHkRes
  /\ createReservation(Receptionist, HkBooking)

HkCheckIn == \E id \in 1..MaxHkRes : checkIn(id)

HkCheckOut == \E id \in 1..MaxHkRes : checkOut(id)

CreateTask ==
  /\ Len(tasks) < MaxTasks
  /\ \E user \in {Manager, Receptionist}, body \in TaskBodies :
       createTask(user, body)

UpdateTask ==
  \E user \in {Housekeeper1, Housekeeper2, Manager}, id \in TaskIds,
     body \in TaskUpdates :
       updateTask(user, id, body)

CreateRequest ==
  /\ Len(requests) < MaxHkRequests
  /\ \E body \in RequestBodies : createRequest(Guest1, body)

NextHousekeeping ==
  \/ HkCreateReservation
  \/ HkCheckIn
  \/ HkCheckOut
  \/ CreateTask
  \/ UpdateTask
  \/ CreateRequest
  \/ UpdateRequest

SpecHousekeeping == Init /\ [][NextHousekeeping]_vars

----------------------------------------------------------------------------
(* SpecCleaningDone: the housekeeping handlers alone, on tasks of room 1.   *)
(* The rooms start in any status the other handlers can have left them in.  *)

InitCleaningDone ==
  /\ \E s1 \in RoomStatuses, s2 \in RoomStatuses :
       rooms = SetRoomStatus(SetRoomStatus(InitRooms, 1, s1), 2, s2)
  /\ reservations = <<>>
  /\ tasks = <<>>
  /\ requests = <<>>
  /\ res = NoResponse
  /\ now = 0
  /\ handlers = <<>>

NextCleaningDone == CreateTask \/ UpdateTask

SpecCleaningDone == InitCleaningDone /\ [][NextCleaningDone]_vars

----------------------------------------------------------------------------
(* SpecTaskClock: SpecCleaningDone with a clock that advances.              *)

NextTaskClock == CreateTask \/ UpdateTask \/ Tick

SpecTaskClock == InitCleaningDone /\ [][NextTaskClock]_vars

----------------------------------------------------------------------------

(* SpecCreateConc: createReservation handlers in flight together.  A handler *)
(* is suspended at each await; the storage call it awaits takes effect in    *)
(* one step, together with the code that runs up to the next await.          *)
(*   pc = "findRoom"      await Room.findById(roomId)             line 94    *)
(*   pc = "findConflict"  await Reservation.findOne({...})        line 104   *)
(*   pc = "create"        await Reservation.create({...})         line 125   *)
(*   pc = "saveRoom"      await room.save()                       line 138   *)
(* The awaits after room.save() touch neither collection; the response is    *)
(* taken with the room.save() step.                                          *)

\* handlers in flight in SpecCreateConc
MaxHandlers == 2

HandlerIds == 1..MaxHandlers

NoRoom == [status |-> "none", pricePerNight |-> 0, maxOccupancy |-> 0]

NoBody ==
  [roomId |-> Absent, checkInDate |-> Absent, checkOutDate |-> Absent,
   numberOfGuests |-> 0, guestId |-> NoString, specialRequests |-> NoString]

IdleHandler ==
  [pc |-> "idle", user |-> Guest1, body |-> NoBody, room |-> NoRoom,
   reservationId |-> 0, res |-> NoResponse]

ConcBodies ==
  [roomId : RoomIds \cup {UnknownRoom},
   checkInDate : Dates,
   checkOutDate : Dates,
   numberOfGuests : {2, 3},
   guestId : {NoString},
   specialRequests : {NoString}]

InitConc ==
  /\ rooms = InitRooms
  /\ reservations = <<>>
  /\ tasks = <<>>
  /\ requests = <<>>
  /\ res = NoResponse
  /\ now = 0
  /\ handlers = [p \in HandlerIds |-> IdleHandler]

\* the handler returns with a response
Respond(p, code, message) ==
  handlers' = [handlers EXCEPT
                 ![p].pc = "done",
                 ![p].res = Response("createReservation", code, message)]

\* room.save() of a document loaded as `loaded': Mongoose writes the paths
\* whose value differs from the loaded one
saveRoomStatus(rs, roomId, loaded, status) ==
  IF loaded.status = status THEN rs ELSE [rs EXCEPT ![roomId].status = status]

\* the request arrives; lines 66-91 run, then Room.findById is awaited
Begin(p) ==
  /\ handlers[p].pc = "idle"
  /\ \E user \in {Guest1}, body \in ConcBodies :
       LET v == createValidation(body) IN
       IF v # "ok"
         THEN handlers' = [handlers EXCEPT
                ![p].pc = "done", ![p].user = user, ![p].body = body,
                ![p].res = Response("createReservation", 400, v)]
         ELSE handlers' = [handlers EXCEPT
                ![p].pc = "findRoom", ![p].user = user, ![p].body = body]
  /\ UNCHANGED <<rooms, reservations, tasks, requests, res, now>>

\* Room.findById returns; lines 95-101 run, then Reservation.findOne is awaited
FindRoom(p) ==
  /\ handlers[p].pc = "findRoom"
  /\ LET body == handlers[p].body IN
     IF body.roomId \notin DOMAIN rooms
       THEN Respond(p, 404, "Room not found")
     ELSE IF body.numberOfGuests > rooms[body.roomId].maxOccupancy
       THEN Respond(p, 400, "Room can only accommodate")
     ELSE handlers' = [handlers EXCEPT
            ![p].pc = "findConflict", ![p].room = rooms[body.roomId]]
  /\ UNCHANGED <<rooms, reservations, tasks, requests, res, now>>

\* Reservation.findOne returns; lines 114-123 run, then Reservation.create is
\* awaited
FindConflict(p) ==
  /\ handlers[p].pc = "findConflict"
  /\ LET body == handlers[p].body IN
     IF conflictingReservation(reservations, body.roomId,
                               body.checkInDate, body.checkOutDate)
       THEN Respond(p, 400, "Room is not available for the selected dates")
       ELSE handlers' = [handlers EXCEPT ![p].pc = "create"]
  /\ UNCHANGED <<rooms, reservations, tasks, requests, res, now>>

\* Reservation.create stores the document; line 137 runs, then room.save() is
\* awaited
Create(p) ==
  /\ handlers[p].pc = "create"
  /\ reservations' =
       Append(reservations,
              NewReservation(handlers[p].user, handlers[p].body, handlers[p].room))
  /\ handlers' = [handlers EXCEPT
       ![p].pc = "saveRoom", ![p].reservationId = Len(reservations) + 1]
  /\ UNCHANGED <<rooms, tasks, requests, res, now>>

\* room.save() writes the room; the handler goes on to respond 201
SaveRoom(p) ==
  /\ handlers[p].pc = "saveRoom"
  /\ rooms' = saveRoomStatus(rooms, handlers[p].body.roomId, handlers[p].room,
                             "reserved")
  /\ Respond(p, 201, "ok")
  /\ UNCHANGED <<reservations, tasks, requests, res, now>>

NextConc ==
  \E p \in HandlerIds :
    \/ Begin(p)
    \/ FindRoom(p)
    \/ FindConflict(p)
    \/ Create(p)
    \/ SaveRoom(p)

SpecCreateConc == InitConc /\ [][NextConc]_vars

----------------------------------------------------------------------------
(* SpecChainConc: createReservation, checkIn and checkOut handlers on room 1 *)
(* in flight together, suspended at each await as in SpecCreateConc.         *)
(*   createReservation: "findRoom", "findConflict", "create", "saveRoom"     *)
(*   checkIn, checkOut:                                                      *)
(*   pc = "findReservation"  await Reservation.findById(id)   lines 218, 265 *)
(*   pc = "saveReservation"  await reservation.save()         lines 230, 277 *)
(*   pc = "loadRoom"         await Room.findById(...)         lines 233, 280 *)
(*   pc = "saveRoom"         await room.save()                lines 235, 282 *)
(*   pc = "dispatch"         the email and the notifications, each in its    *)
(*                           own try/catch         lines 145-200, 242, 289   *)
(* The Reservation.findById(...).populate(...) that follows room.save() only *)
(* reads; it is taken with the room.save() step.  A handler records the      *)
(* order in which its reservation write was committed (seq), that its        *)
(* room.save() returned (roomSaved) and how its dispatch ended.              *)

\* handlers in flight in SpecChainConc
MaxChainHandlers == 2

ChainHandlerIds == 1..MaxChainHandlers

\* no document loaded yet
NoDocument == [status |-> "none"]

IdleJob ==
  [pc |-> "idle", op |-> "none", id |-> 0, user |-> Guest1, body |-> NoBody,
   doc |-> NoDocument, room |-> NoRoom, reservationId |-> 0,
   res |-> NoResponse, seq |-> 0, roomSaved |-> FALSE, dispatch |-> "none"]

\* the bookings of room 1 that the handlers ask for
ChainBodies ==
  [roomId : {1},
   checkInDate : {DayMs, 2 * DayMs},
   checkOutDate : {3 * DayMs},
   numberOfGuests : {2},
   guestId : {NoString},
   specialRequests : {NoString}]

\* two back-to-back stays in room 1: the first booked and possibly checked
\* in, the second booked
InitChainConc ==
  /\ \E s \in {"confirmed", "checked-in"} :
       /\ reservations = <<StoredReservation(1, 0, DayMs, s),
                           StoredReservation(1, DayMs, 2 * DayMs, "confirmed")>>
       /\ rooms = [InitRooms EXCEPT ![1].status = RoomStatusAfter(s)]
  /\ tasks = <<>>
  /\ requests = <<>>
  /\ res = NoResponse
  /\ now = 0
  /\ handlers = [p \in ChainHandlerIds |-> IdleJob]

\* the ordinal of the next reservation write to be committed
NextSeq == 1 + Cardinality({q \in DOMAIN handlers : handlers[q].seq > 0})

\* the handler returns with a response
Finish(p, code, message) ==
  handlers' = [handlers EXCEPT
                 ![p].pc = "done",
                 ![p].res = Response(handlers[p].op, code, message)]

\* a createReservation request arrives; lines 66-91 run, then Room.findById
\* is awaited
StartCreate(p) ==
  /\ handlers[p].pc = "idle"
  /\ \E user \in {Guest1}, body \in ChainBodies :
       LET v == createValidation(body) IN
       IF v # "ok"
         THEN handlers' = [handlers EXCEPT
                ![p].pc = "done", ![p].op = "createReservation",
                ![p].user = user, ![p].body = body,
                ![p].res = Response("createReservation", 400, v)]
         ELSE handlers' = [handlers EXCEPT
                ![p].pc = "findRoom", ![p].op = "createReservation",
                ![p].user = user, ![p].body = body]
  /\ UNCHANGED <<rooms, reservations, tasks, requests, res, now>>

\* Reservation.create stores the document; line 137 runs, then room.save() is
\* awaited
StoreReservation(p) ==
  /\ handlers[p].op = "createReservation"
  /\ handlers[p].pc = "create"
  /\ reservations' =
       Append(reservations,
              NewReservation(handlers[p].user, handlers[p].body, handlers[p].room))
  /\ handlers' = [handlers EXCEPT
       ![p].pc = "saveRoom", ![p].reservationId = Len(reservations) + 1,
       ![p].seq = NextSeq]
  /\ UNCHANGED <<rooms, tasks, requests, res, now>>

\* room.save() writes the room; the handler goes on to its dispatches
SaveRoomReserved(p) ==
  /\ handlers[p].op = "createReservation"
  /\ handlers[p].pc = "saveRoom"
  /\ rooms' = saveRoomStatus(rooms, handlers[p].body.roomId, handlers[p].room,
                             "reserved")
  /\ handlers' = [handlers EXCEPT ![p].pc = "dispatch", ![p].roomSaved = TRUE]
  /\ UNCHANGED <<reservations, tasks, requests, res, now>>

\* a checkIn or checkOut request arrives; Reservation.findById is awaited
StartTransition(p) ==
  /\ handlers[p].pc = "idle"
  /\ \E op \in {"checkIn", "checkOut"}, id \in 1..(Len(reservations) + 1) :
       handlers' = [handlers EXCEPT
                      ![p].pc = "findReservation", ![p].op = op, ![p].id = id]
  /\ UNCHANGED <<rooms, reservations, tasks, requests, res, now>>

\* Reservation.findById returns; the two guards run, then reservation.save()
\* is awaited
FindReservation(p) ==
  /\ handlers[p].pc = "findReservation"
  /\ LET id == handlers[p].id IN
     IF ~Found(reservations, id)
       THEN Finish(p, 404, "Reservation not found")
     ELSE IF handlers[p].op = "checkIn" /\ ~mayCheckIn(reservations[id])
       THEN Finish(p, 400, "Only confirmed reservations can be checked in")
     ELSE IF handlers[p].op = "checkOut" /\ ~mayCheckOut(reservations[id])
       THEN Finish(p, 400, "Only checked-in reservations can be checked out")
     ELSE handlers' = [handlers EXCEPT ![p].pc = "saveReservation"]
  /\ UNCHANGED <<rooms, reservations, tasks, requests, res, now>>

\* the status that the handler gives the reservation
StatusWritten(op) == IF op = "checkIn" THEN "checked-in" ELSE "checked-out"

\* reservation.save() writes the status; Room.findById is awaited
SaveReservation(p) ==
  /\ handlers[p].pc = "saveReservation"
  /\ reservations' = SetReservationStatus(reservations, handlers[p].id,
                                          StatusWritten(handlers[p].op))
  /\ handlers' = [handlers EXCEPT ![p].pc = "loadRoom", ![p].seq = NextSeq]
  /\ UNCHANGED <<rooms, tasks, requests, res, now>>

\* Room.findById(reservation.roomId._id) returns; room.save() is awaited
LoadRoom(p) ==
  /\ handlers[p].pc = "loadRoom"
  /\ handlers' = [handlers EXCEPT
       ![p].pc = "saveRoom",
       ![p].room = rooms[reservations[handlers[p].id].roomId]]
  /\ UNCHANGED <<rooms, reservations, tasks, requests, res, now>>

\* room.save() writes the room; the handler goes on to its dispatch
SaveRoomOfStay(p) ==
  /\ handlers[p].op \in {"checkIn", "checkOut"}
  /\ handlers[p].pc = "saveRoom"
  /\ rooms' = saveRoomStatus(rooms, reservations[handlers[p].id].roomId,
                             handlers[p].room,
                             RoomStatusAfter(StatusWritten(handlers[p].op)))
  /\ handlers' = [handlers EXCEPT ![p].pc = "dispatch", ![p].roomSaved = TRUE]
  /\ UNCHANGED <<reservations, tasks, requests, res, now>>

\* a dispatch that hands its failure to the outer catch
responseAfterDispatchEscalating(op, outcome) ==
  IF outcome = "failed" THEN Response(op, 500, "Server error")
  ELSE Response(op, IF op = "createReservation" THEN 201 ELSE 200, "ok")

\* every dispatch is in a try/catch of its own that logs: the response is
\* res.status(201) for createReservation, res.json for checkIn and checkOut
responseAfterDispatch(op, outcome) ==
  Response(op, IF op = "createReservation" THEN 201 ELSE 200, "ok")

\* the email and the notifications are sent or fail; the handler responds
Dispatch(p) ==
  /\ handlers[p].pc = "dispatch"
  /\ \E outcome \in {"sent", "failed"} :
       handlers' = [handlers EXCEPT
                      ![p].pc = "done", ![p].dispatch = outcome,
                      ![p].res = responseAfterDispatch(handlers[p].op, outcome)]
  /\ UNCHANGED <<rooms, reservations, tasks, requests, res, now>>

NextChainConc ==
  \E p \in DOMAIN handlers :
    \/ StartCreate(p)
    \/ FindRoom(p)
    \/ FindConflict(p)
    \/ StoreReservation(p)
    \/ SaveRoomReserved(p)
    \/ StartTransition(p)
    \/ FindReservation(p)
    \/ SaveReservation(p)
    \/ LoadRoom(p)
    \/ SaveRoomOfStay(p)
    \/ Dispatch(p)

SpecChainConc == InitChainConc /\ [][NextChainConc]_vars

----------------------------------------------------------------------------
(* SpecChainFails: the handlers of SpecChainConc on a store whose calls can  *)
(* fail.  A storage call that rejects throws into the outer catch of its     *)
(* handler, which answers 500 (lines 204-210, 255-257, 302-304).             *)

\* the awaits of a handler that are storage calls
StorageCalls ==
  {"findRoom", "findConflict", "create", "saveRoom",
   "findReservation", "saveReservation", "loadRoom"}

\* the awaited storage call rejects: it writes nothing, the handler answers 500
StorageFails(p) ==
  /\ handlers[p].pc \in StorageCalls
  /\ Finish(p, 500, "Server error")
  /\ UNCHANGED <<rooms, reservations, tasks, requests, res, now>>

NextChainFails ==
  \/ NextChainConc
  \/ \E p \in DOMAIN handlers : StorageFails(p)

SpecChainFails == InitChainConc /\ [][NextChainFails]_vars

----------------------------------------------------------------------------

(* SpecStaleConc: a cleaning-task completion and an issue resolution in      *)
(* flight together with the reservation handlers of SpecChainConc and with   *)
(* an urgent createRequest, all on room 1.                                   *)
(*   updateTask (housekeepingController.js):                                 *)
(*   pc = "findTask"       await Housekeeping.findById(id)        line 89    *)
(*   pc = "saveTask"       await task.save()                      line 118   *)
(*   pc = "findRoomOfTask" await Room.findById(task.roomId)       line 122   *)
(*   pc = "saveRoom"       await room.save()                      line 125   *)
(*   updateRequest (part_002):                                               *)
(*   pc = "findRequest"       await Maintenance.findById(id)      line 101   *)
(*   pc = "findRoomOfRequest" await Room.findById(request.roomId) line 125   *)
(*   pc = "saveRoom"          await room.save()                   line 128   *)
(*   pc = "saveRequest"       await request.save()                line 132   *)
(*   createRequest (part_002):                                               *)
(*   pc = "findRoomOfIssue" await Room.findById(roomId)           line 67    *)
(*   pc = "createRequest"   await Maintenance.create({...})       line 72    *)
(*   pc = "saveRoom"        await room.save()                     line 83    *)
(* The populating reads that follow only read; each is taken with the step   *)
(* before it.                                                                *)

\* handlers in flight in SpecStaleConc
MaxStaleHandlers == 2

\* document.save() of a document loaded as `loaded' and since changed in
\* memory to `inMemory': Mongoose writes the paths whose value differs
savePaths(stored, loaded, inMemory) ==
  [f \in DOMAIN stored |->
     IF inMemory[f] # loaded[f] THEN inMemory[f] ELSE stored[f]]

\* the completions and the resolutions that the handlers ask for
StaleTaskUpdates == {body \in TaskUpdates : body.status = "completed"}
StaleRequestUpdates == {body \in RequestUpdates : body.status = "resolved"}

\* the first stay of room 1 is over, the second is booked; a cleaning task
\* and an urgent issue of room 1 are open.  The room is as the check-out or
\* the issue left it, whichever came last
InitStaleConc ==
  /\ now = 0
  /\ reservations = <<StoredReservation(1, 0, DayMs, "checked-out"),
                      StoredReservation(1, DayMs, 2 * DayMs, "confirmed")>>
  /\ \E body \in {b \in TaskBodies : b.taskType = "cleaning"} :
       tasks = <<NewTask(body)>>
  /\ \E body \in {b \in RequestBodies : b.priority = "urgent"} :
       requests = <<NewRequest(Guest1, body)>>
  /\ \E s \in {"cleaning", "maintenance"} :
       rooms = [InitRooms EXCEPT ![1].status = s]
  /\ res = NoResponse
  /\ handlers = [p \in 1..MaxStaleHandlers |-> IdleJob]

\* an updateTask request arrives; Housekeeping.findById is awaited
StartUpdateTask(p) ==
  /\ handlers[p].pc = "idle"
  /\ \E user \in {Housekeeper1, Manager}, id \in 1..(Len(tasks) + 1),
        body \in StaleTaskUpdates :
       handlers' = [handlers EXCEPT
                      ![p].pc = "findTask", ![p].op = "updateTask",
                      ![p].user = user, ![p].id = id, ![p].body = body]
  /\ UNCHANGED <<rooms, reservations, tasks, requests, res, now>>

\* the task as lines 94-117 leave it in memory
taskInMemory(user, task, body) ==
  [(IF user.role = "housekeeping" THEN workerUpdate(task, body)
    ELSE managerUpdate(task, body)) EXCEPT !.updatedAt = now]

\* Housekeeping.findById returns; lines 90-117 run, then task.save() is awaited
FindTask(p) ==
  /\ handlers[p].pc = "findTask"
  /\ LET id == handlers[p].id IN
     IF ~Found(tasks, id)
       THEN Finish(p, 404, "Task not found")
     ELSE IF /\ handlers[p].user.role = "housekeeping"
             /\ assignedToOther(tasks[id], handlers[p].user)
       THEN Finish(p, 403, "Not authorized to update this task")
     ELSE handlers' = [handlers EXCEPT
            ![p].pc = "saveTask", ![p].doc = tasks[id]]
  /\ UNCHANGED <<rooms, reservations, tasks, requests, res, now>>

\* task.save() writes the task; line 121 runs, then Room.findById is awaited
\* for a completed cleaning task
SaveTask(p) ==
  /\ handlers[p].pc = "saveTask"
  /\ LET h == handlers[p]
         task == taskInMemory(h.user, h.doc, h.body)
     IN /\ tasks' = [tasks EXCEPT ![h.id] = savePaths(@, h.doc, task)]
        /\ IF isCompletedCleaning(task)
             THEN handlers' = [handlers EXCEPT
                    ![p].pc = "findRoomOfTask", ![p].seq = NextSeq]
             ELSE handlers' = [handlers EXCEPT
                    ![p].pc = "done", ![p].seq = NextSeq,
                    ![p].res = Response("updateTask", 200, "ok")]
  /\ UNCHANGED <<rooms, reservations, requests, res, now>>

\* Room.findById(task.roomId) returns; line 123 runs, then room.save() is
\* awaited for a room that is 'cleaning'
FindRoomOfTask(p) ==
  /\ handlers[p].pc = "findRoomOfTask"
  /\ LET roomId == handlers[p].doc.roomId IN
     IF roomId \in DOMAIN rooms /\ rooms[roomId].status = "cleaning"
       THEN handlers' = [handlers EXCEPT
              ![p].pc = "saveRoom", ![p].room = rooms[roomId]]
       ELSE Finish(p, 200, "ok")
  /\ UNCHANGED <<rooms, reservations, tasks, requests, res, now>>

\* room.save() writes 'available'; the handler responds
SaveRoomOfTask(p) ==
  /\ handlers[p].op = "updateTask"
  /\ handlers[p].pc = "saveRoom"
  /\ rooms' = saveRoomStatus(rooms, handlers[p].doc.roomId, handlers[p].room,
                             "available")
  /\ handlers' = [handlers EXCEPT
       ![p].pc = "done", ![p].roomSaved = TRUE,
       ![p].res = Response("updateTask", 200, "ok")]
  /\ UNCHANGED <<reservations, tasks, requests, res, now>>

\* an updateRequest request arrives; Maintenance.findById is awaited
StartUpdateRequest(p) ==
  /\ handlers[p].pc = "idle"
  /\ \E user \in {Manager}, id \in 1..(Len(requests) + 1),
        body \in StaleRequestUpdates :
       handlers' = [handlers EXCEPT
                      ![p].pc = "findRequest", ![p].op = "updateRequest",
                      ![p].user = user, ![p].id = id, ![p].body = body]
  /\ UNCHANGED <<rooms, reservations, tasks, requests, res, now>>

\* Maintenance.findById returns; lines 102-122 run, then Room.findById is
\* awaited for a resolution, request.save() otherwise
FindRequest(p) ==
  /\ handlers[p].pc = "findRequest"
  /\ LET id == handlers[p].id IN
     IF ~Found(requests, id)
       THEN Finish(p, 404, "Maintenance request not found")
     ELSE IF statusNeedsPrivilege(handlers[p].user, handlers[p].body)
       THEN Finish(p, 403, "Only admin/manager can update status")
     ELSE handlers' = [handlers EXCEPT
            ![p].pc = IF handlers[p].body.status = "resolved"
                        THEN "findRoomOfRequest" ELSE "saveRequest",
            ![p].doc = requests[id]]
  /\ UNCHANGED <<rooms, reservations, tasks, requests, res, now>>

\* Room.findById(request.roomId) returns; line 126 runs, then room.save() is
\* awaited for a room under 'maintenance', request.save() otherwise
FindRoomOfRequest(p) ==
  /\ handlers[p].pc = "findRoomOfRequest"
  /\ LET roomId == handlers[p].doc.roomId IN
     IF roomId \in DOMAIN rooms /\ rooms[roomId].status = "maintenance"
       THEN handlers' = [handlers EXCEPT
              ![p].pc = "saveRoom", ![p].room = rooms[roomId]]
       ELSE handlers' = [handlers EXCEPT ![p].pc = "saveRequest"]
  /\ UNCHANGED <<rooms, reservations, tasks, requests, res, now>>

\* room.save() writes 'available'; request.save() is awaited
SaveRoomOfRequest(p) ==
  /\ handlers[p].op = "updateRequest"
  /\ handlers[p].pc = "saveRoom"
  /\ rooms' = saveRoomStatus(rooms, handlers[p].doc.roomId, handlers[p].room,
                             "available")
  /\ handlers' = [handlers EXCEPT
       ![p].pc = "saveRequest", ![p].roomSaved = TRUE]
  /\ UNCHANGED <<reservations, tasks, requests, res, now>>

\* request.save() validates and writes the request; the handler responds
SaveRequest(p) ==
  /\ handlers[p].pc = "saveRequest"
  /\ LET h == handlers[p]
         request == requestFields(h.doc, h.body)
     IN IF requestIsValid(request)
          THEN /\ requests' = [requests EXCEPT
                                 ![h.id] = savePaths(@, h.doc, request)]
               /\ handlers' = [handlers EXCEPT
                    ![p].pc = "done", ![p].seq = NextSeq,
                    ![p].res = Response("updateRequest", 200, "ok")]
          ELSE /\ requests' = requests
               /\ Finish(p, 500, "Server error")
  /\ UNCHANGED <<rooms, reservations, tasks, res, now>>

\* a createRequest request for an urgent issue arrives; Room.findById is
\* awaited
StartCreateRequest(p) ==
  /\ handlers[p].pc = "idle"
  /\ \E user \in {Guest1}, body \in RequestBodies :
       handlers' = [handlers EXCEPT
                      ![p].pc = "findRoomOfIssue", ![p].op = "createRequest",
                      ![p].user = user, ![p].body = body]
  /\ UNCHANGED <<rooms, reservations, tasks, requests, res, now>>

\* Room.findById returns; Maintenance.create is awaited
FindRoomOfIssue(p) ==
  /\ handlers[p].pc = "findRoomOfIssue"
  /\ LET roomId == handlers[p].body.roomId IN
     IF roomId \notin DOMAIN rooms
       THEN Finish(p, 404, "Room not found")
       ELSE handlers' = [handlers EXCEPT
              ![p].pc = "createRequest", ![p].room = rooms[roomId]]
  /\ UNCHANGED <<rooms, reservations, tasks, requests, res, now>>

\* Maintenance.create stores the request; room.save() is awaited for an
\* urgent issue
StoreRequest(p) ==
  /\ handlers[p].pc = "createRequest"
  /\ requests' = Append(requests,
                        NewRequest(handlers[p].user, handlers[p].body))
  /\ IF handlers[p].body.priority = "urgent"
       THEN handlers' = [handlers EXCEPT
              ![p].pc = "saveRoom", ![p].seq = NextSeq]
       ELSE handlers' = [handlers EXCEPT
              ![p].pc = "done", ![p].seq = NextSeq,
              ![p].res = Response("createRequest", 201, "ok")]
  /\ UNCHANGED <<rooms, reservations, tasks, res, now>>

\* room.save() writes 'maintenance'; the handler responds
SaveRoomOfIssue(p) ==
  /\ handlers[p].op = "createRequest"
  /\ handlers[p].pc = "saveRoom"
  /\ rooms' = saveRoomStatus(rooms, handlers[p].body.roomId, handlers[p].room,
                             "maintenance")
  /\ handlers' = [handlers EXCEPT
       ![p].pc = "done", ![p].roomSaved = TRUE,
       ![p].res = Response("createRequest", 201, "ok")]
  /\ UNCHANGED <<reservations, tasks, requests, res, now>>

NextStaleConc ==
  \E p \in DOMAIN handlers :
    \/ StartUpdateTask(p)
    \/ FindTask(p)
    \/ SaveTask(p)
    \/ FindRoomOfTask(p)
    \/ SaveRoomOfTask(p)
    \/ StartUpdateRequest(p)
    \/ FindRequest(p)
    \/ FindRoomOfRequest(p)
    \/ SaveRoomOfRequest(p)
    \/ SaveRequest(p)
    \/ StartCreateRequest(p)
    \/ FindRoomOfIssue(p)
    \/ StoreRequest(p)
    \/ SaveRoomOfIssue(p)
    \/ NextChainConc

SpecStaleConc == InitStaleConc /\ [][NextStaleConc]_vars

----------------------------------------------------------------------------

(* Claims *)

\* the canonical rule: [e.checkInDate, e.checkOutDate) and [checkInDate, checkOutDate) overlap
Overlaps(e, checkInDate, checkOutDate) ==
  e.checkInDate < checkOutDate /\ e.checkOutDate > checkInDate

Blocking(e) == e.status \in {"confirmed", "checked-in"}

\* a stored blocking reservation on the room overlaps the request
OverlapsBlocking(all, body) ==
  \E i \in 1..Len(all) :
    /\ all[i].roomId = body.roomId
    /\ Blocking(all[i])
    /\ Overlaps(all[i], body.checkInDate, body.checkOutDate)

\* a stored blocking reservation on the room ends where the request begins,
\* or begins where it ends
BackToBack(all, body) ==
  \E i \in 1..Len(all) :
    /\ all[i].roomId = body.roomId
    /\ Blocking(all[i])
    /\ \/ all[i].checkOutDate = body.checkInDate
       \/ all[i].checkInDate = body.checkOutDate

ConflictResponse ==
  Response("createReservation", 400,
           "Room is not available for the selected dates")

Created == Response("createReservation", 201, "ok")

\* C1 (as claimed): no double booking. In every state, two distinct
\* reservations on one room that are both confirmed or checked-in have
\* disjoint intervals [checkInDate, checkOutDate).
NoDoubleBooking ==
  \A i, j \in 1..Len(reservations) :
    (/\ i # j
     /\ reservations[i].roomId = reservations[j].roomId
     /\ Blocking(reservations[i])
     /\ Blocking(reservations[j]))
    => ~Overlaps(reservations[i], reservations[j].checkInDate,
                 reservations[j].checkOutDate)

\* C3: a createReservation with chronological dates is answered with the
\* conflict error exactly when some stored reservation on the room is
\* confirmed or checked-in and has existing.checkIn < new.checkOut and
\* existing.checkOut > new.checkIn; checked-out and cancelled ones never count.
ConflictTestIsOverlap ==
  [][\A body \in ProbeBodies :
       (body.checkInDate < body.checkOutDate
        /\ createReservation(Receptionist, body))
       => ((res' = ConflictResponse) <=> OverlapsBlocking(reservations, body))
    ]_vars

\* C3 witness: a request was accepted that overlaps a stored reservation on
\* its room whose status is checked-out or cancelled.
ConflictTestWitness ==
  /\ res = Created
  /\ Len(reservations) = 2
  /\ ~Blocking(reservations[1])
  /\ reservations[1].roomId = reservations[2].roomId
  /\ Overlaps(reservations[1], reservations[2].checkInDate,
              reservations[2].checkOutDate)

\* C4: back-to-back stays do not conflict, on either side. A request whose
\* checkInDate is the checkOutDate of a blocking reservation on the room, or whose
\* checkOutDate is the checkInDate of one, and which overlaps no blocking reservation
\* on the room, is accepted and stored.
BackToBackAllowed ==
  [][\A body \in ProbeBodies :
       (/\ body.checkInDate < body.checkOutDate
        /\ BackToBack(reservations, body)
        /\ ~OverlapsBlocking(reservations, body)
        /\ createReservation(Receptionist, body))
       => (/\ res' = Created
           /\ Len(reservations') = Len(reservations) + 1
           /\ reservations'[Len(reservations')].checkInDate = body.checkInDate
           /\ reservations'[Len(reservations')].checkOutDate = body.checkOutDate)
    ]_vars

\* C4 witness: the reservation stored last ends on the day a checked-in
\* reservation on its room begins.
BackToBackWitness ==
  /\ res = Created
  /\ Len(reservations) = 2
  /\ reservations[1].roomId = reservations[2].roomId
  /\ reservations[1].status = "checked-in"
  /\ reservations[2].checkOutDate = reservations[1].checkInDate

\* C5: a request that overlaps a confirmed or checked-in reservation on the
\* room is answered with the conflict error, stores no reservation and leaves
\* every room's status as it was.
OverlapRejected ==
  [][\A body \in ProbeBodies :
       (/\ body.checkInDate < body.checkOutDate
        /\ OverlapsBlocking(reservations, body)
        /\ createReservation(Receptionist, body))
       => (/\ res' = ConflictResponse
           /\ reservations' = reservations
           /\ rooms' = rooms)
    ]_vars

\* C5 witness: a request was refused while a checked-in reservation is stored
\* and its room is occupied.
OverlapRejectedWitness ==
  /\ res = ConflictResponse
  /\ Len(reservations) = 1
  /\ reservations[1].status = "checked-in"
  /\ rooms[reservations[1].roomId].status = "occupied"

\* C6: the primary status chain. Right after a createReservation that stored
\* a reservation its room is reserved, right after a checkIn that succeeded
\* the room of the reservation is occupied, and right after a checkOut that
\* succeeded it is cleaning, whatever the room's status was before.
PrimaryStatusChain ==
  [][/\ (res' = Created)
          => (/\ Len(reservations') = Len(reservations) + 1
              /\ rooms'[reservations'[Len(reservations')].roomId].status
                   = "reserved")
     /\ \A id \in LifeIds :
          (checkIn(id) /\ res'.code = 200)
          => rooms'[reservations[id].roomId].status = "occupied"
     /\ \A id \in LifeIds :
          (checkOut(id) /\ res'.code = 200)
          => rooms'[reservations[id].roomId].status = "cleaning"
    ]_vars

\* C6 witness: a reservation was just stored on a room that an earlier guest
\* has checked out of, and the room is now reserved.
PrimaryStatusChainWitness ==
  /\ res = Created
  /\ Len(reservations) = 2
  /\ reservations[1].status = "checked-out"
  /\ reservations[1].roomId = reservations[2].roomId
  /\ rooms[reservations[2].roomId].status = "reserved"

InvalidCheckOut ==
  Response("checkOut", 400, "Only checked-in reservations can be checked out")

InvalidCheckIn ==
  Response("checkIn", 400, "Only confirmed reservations can be checked in")

\* C8: checkOut on a stored reservation whose status is not checked-in is
\* answered with the invalid-transition error and changes neither any
\* reservation nor any room.
CheckOutGuard ==
  [][\A id \in LifeIds :
       (/\ Found(reservations, id)
        /\ reservations[id].status # "checked-in"
        /\ checkOut(id))
       => (/\ res' = InvalidCheckOut
           /\ reservations' = reservations
           /\ rooms' = rooms)
    ]_vars

\* C8 witness: a checkOut was refused while every stored reservation is
\* still confirmed.
CheckOutGuardWitness ==
  /\ res = InvalidCheckOut
  /\ Len(reservations) >= 1
  /\ \A i \in 1..Len(reservations) : reservations[i].status = "confirmed"

\* C9: checkIn on a stored reservation whose status is not confirmed is
\* answered with the invalid-transition error and changes neither any
\* reservation nor any room.
CheckInGuard ==
  [][\A id \in LifeIds :
       (/\ Found(reservations, id)
        /\ reservations[id].status # "confirmed"
        /\ checkIn(id))
       => (/\ res' = InvalidCheckIn
           /\ reservations' = reservations
           /\ rooms' = rooms)
    ]_vars

\* C9 witness: a checkIn was refused while the stored reservations are one
\* checked-out and one cancelled.
CheckInGuardWitness ==
  /\ res = InvalidCheckIn
  /\ Len(reservations) = 2
  /\ reservations[1].status = "checked-out"
  /\ reservations[2].status = "cancelled"

\* C10 (as claimed): checked-out and cancelled are terminal. No step changes
\* the status of a reservation that is checked-out or cancelled.
TerminalStatusesFinal ==
  [][\A i \in 1..Len(reservations) :
       reservations[i].status \in {"checked-out", "cancelled"}
       => reservations'[i].status = reservations[i].status
    ]_vars

\* C7: the CleaningDone guard. When an updateTask with status 'completed'
\* succeeds on a task whose type is then cleaning, the task's room becomes
\* available if it was cleaning and keeps its status otherwise, and no other
\* room changes; when the task's type is anything else, no room changes.
CleaningDoneGuard ==
  [][res' = Response("updateTask", 200, "ok") =>
       \A id \in {i \in DOMAIN tasks : tasks'[i].status = "completed"},
          body \in {b \in TaskUpdates : b.status = "completed"},
          user \in {Housekeeper1, Housekeeper2, Manager} :
         updateTask(user, id, body)
         => IF tasks'[id].taskType = "cleaning"
              THEN rooms' =
                     [rooms EXCEPT ![tasks'[id].roomId].status =
                        IF @ = "cleaning" THEN "available" ELSE @]
              ELSE rooms' = rooms
    ]_vars

\* C7 witness: the cleaning task of room 1 is completed and room 1 is still
\* occupied, while room 2 is still being cleaned.
CleaningDoneGuardWitness ==
  /\ res = Response("updateTask", 200, "ok")
  /\ Len(tasks) = 1
  /\ isCompletedCleaning(tasks[1])
  /\ tasks[1].roomId = 1
  /\ rooms[1].status = "occupied"
  /\ rooms[2].status = "cleaning"

\* a storage call of handler p on room roomId is pending
PendingOn(p, roomId) ==
  /\ handlers[p].pc \in {"findRoom", "findConflict", "create", "saveRoom"}
  /\ handlers[p].body.roomId = roomId

\* C2 (as claimed): in createReservation the conflict check, the reservation
\* write and the room-status write are one atomic unit per room. Of two
\* handlers for the same room with overlapping intervals at most one stores a
\* reservation, and while a handler has stored its reservation and its room
\* is not yet reserved, no other handler has a storage call on that room
\* pending.
CreateIsAtomic ==
  \A p, q \in HandlerIds :
    (p # q /\ handlers[p].body.roomId = handlers[q].body.roomId)
    => /\ (/\ handlers[p].reservationId # 0
           /\ handlers[q].reservationId # 0)
          => ~Overlaps(reservations[handlers[p].reservationId],
                       handlers[q].body.checkInDate,
                       handlers[q].body.checkOutDate)
       /\ (/\ handlers[p].pc = "saveRoom"
           /\ rooms[handlers[p].body.roomId].status # "reserved")
          => ~PendingOn(q, handlers[p].body.roomId)

\* C2, its first half alone: of two handlers for the same room with
\* overlapping intervals at most one stores a reservation.
AtMostOneCreates ==
  \A p, q \in HandlerIds :
    (/\ p # q
     /\ handlers[p].reservationId # 0
     /\ handlers[q].reservationId # 0
     /\ handlers[p].body.roomId = handlers[q].body.roomId)
    => ~Overlaps(reservations[handlers[p].reservationId],
                 handlers[q].body.checkInDate, handlers[q].body.checkOutDate)

CancelBody == [status |-> "cancelled", specialRequests |-> NoString]

\* C11 (as claimed): cancellation is permitted only while confirmed. An
\* updateReservation with status 'cancelled' on a checked-in reservation, by
\* the guest who owns it or by staff, is refused and changes no reservation.
CancelOnlyWhileConfirmed ==
  [][\A user \in {Guest1, Receptionist}, id \in ReservationIds :
       (/\ Found(reservations, id)
        /\ reservations[id].status = "checked-in"
        /\ updateReservation(user, id, CancelBody))
       => (/\ res'.code # 200
           /\ reservations' = reservations)
    ]_vars

NotAuthorized == Response("updateReservation", 403, "Not authorized")

GuestsCanOnlyCancel ==
  Response("updateReservation", 403, "Guests can only cancel reservations")

\* C12: the ownership guard. An updateReservation by a guest on a stored
\* reservation whose guestId is not that guest is answered 403 'Not
\* authorized' and changes no reservation and no room, whatever the body.
OwnershipGuard ==
  [][res'.op = "updateReservation" =>
       \A user \in {Guest1, Guest2}, id \in OwnResIds, body \in OwnUpdates :
         (/\ Found(reservations, id)
          /\ reservations[id].guestId # user._id
          /\ updateReservation(user, id, body))
         => (/\ res' = NotAuthorized
             /\ reservations' = reservations
             /\ rooms' = rooms)
    ]_vars

\* C12 witness: the update of a guest who does not own the reservation was
\* refused, and the reservation is still as it was created.
OwnershipGuardWitness ==
  /\ res = NotAuthorized
  /\ Len(reservations) = 1
  /\ reservations[1].guestId = "g1"
  /\ reservations[1].status = "confirmed"
  /\ reservations[1].specialRequests = NoString

\* C13: a guest's updateReservation changes a reservation's status only to
\* cancelled, and a guest's request for any other status on a stored
\* reservation is answered 403 and changes no reservation and no room.
GuestsOnlyCancel ==
  [][res'.op = "updateReservation" =>
       \A user \in {Guest1, Guest2}, id \in OwnResIds, body \in OwnUpdates :
         (Found(reservations, id) /\ updateReservation(user, id, body))
         => /\ reservations'[id].status # reservations[id].status
                 => reservations'[id].status = "cancelled"
            /\ body.status \notin {NoString, "cancelled"}
                 => (/\ res'.code = 403
                     /\ reservations' = reservations
                     /\ rooms' = rooms)
    ]_vars

\* C13 witness: the owner's request for another status was refused, and the
\* reservation is still confirmed.
GuestsOnlyCancelWitness ==
  /\ res = GuestsCanOnlyCancel
  /\ Len(reservations) = 1
  /\ reservations[1].guestId = "g2"
  /\ reservations[1].status = "confirmed"

\* the nights of a stay: the least n with n days >= checkOutDate - checkInDate
IsNights(n, checkInDate, checkOutDate) ==
  /\ n * DayMs >= checkOutDate - checkInDate
  /\ (n - 1) * DayMs < checkOutDate - checkInDate

\* C14: the billing invariant. In every state the totalAmount of every
\* reservation is the price per night of its room times the number of nights
\* of its stay, a partial day counting as a night, and no step changes the
\* totalAmount of a stored reservation.
BillingInvariant ==
  /\ [](\A i \in 1..Len(reservations) :
          \E n \in 1..(reservations[i].checkOutDate \div DayMs + 1) :
            /\ IsNights(n, reservations[i].checkInDate,
                        reservations[i].checkOutDate)
            /\ reservations[i].totalAmount
                 = n * rooms[reservations[i].roomId].pricePerNight)
  /\ [][\A i \in 1..Len(reservations) :
          reservations'[i].totalAmount = reservations[i].totalAmount]_vars

\* C14 witness: a stay of a day and a half in the room that costs 100 a
\* night is stored with totalAmount 200, and its guest has checked out.
BillingInvariantWitness ==
  /\ Len(reservations) = 1
  /\ reservations[1].roomId = 1
  /\ reservations[1].checkOutDate - reservations[1].checkInDate = 3 * HalfDayMs
  /\ reservations[1].totalAmount = 200
  /\ reservations[1].status = "checked-out"

DatesOutOfOrder ==
  Response("createReservation", 400,
           "Check-out date must be after check-in date")

\* the requests whose dates parse and have checkOutDate <= checkInDate
OutOfOrderBodies ==
  {body \in BillBodies :
     /\ body.checkInDate \in BillDates
     /\ body.checkOutDate \in BillDates
     /\ body.checkOutDate <= body.checkInDate}

\* C15: in every state every reservation has checkOutDate > checkInDate; a
\* createReservation whose dates parse and have checkOutDate <= checkInDate
\* is answered with the validation error, stores no reservation and changes
\* no room; and no step changes the dates of a stored reservation.
DatesChronological ==
  /\ [](\A i \in 1..Len(reservations) :
          reservations[i].checkOutDate > reservations[i].checkInDate)
  /\ [][/\ res'.op = "createReservation" =>
             \A body \in OutOfOrderBodies :
               createReservation(Guest1, body)
               => (/\ res' = DatesOutOfOrder
                   /\ reservations' = reservations
                   /\ rooms' = rooms)
        /\ \A i \in 1..Len(reservations) :
             /\ reservations'[i].checkInDate = reservations[i].checkInDate
             /\ reservations'[i].checkOutDate = reservations[i].checkOutDate
       ]_vars

\* C15 witness: a request with dates out of order was refused; no
\* reservation is stored and every room is still available.
DatesChronologicalWitness ==
  /\ res = DatesOutOfOrder
  /\ reservations = <<>>
  /\ \A r \in RoomIds : rooms[r].status = "available"

\* C16: a createRequest that stores a request with priority 'urgent' sets the
\* room of the request to maintenance whatever its status was and changes no
\* other room; one that stores a request with any other priority, or none,
\* changes no room.
UrgentOpensMaintenance ==
  [][res'.op = "createRequest" =>
       \A body \in MtRequestBodies :
         (createRequest(Guest1, body) /\ res'.code = 201)
         => rooms' = IF body.priority = "urgent"
                       THEN [rooms EXCEPT ![body.roomId].status = "maintenance"]
                       ELSE rooms
    ]_vars

\* C16 witness: an urgent request on room 1 was just stored and room 1 is
\* under maintenance, room 2 being free.
UrgentOpensMaintenanceWitness ==
  /\ res = Response("createRequest", 201, "ok")
  /\ Len(requests) = 1
  /\ requests[1].priority = "urgent"
  /\ rooms[requests[1].roomId].status = "maintenance"
  /\ rooms[2].status = "available"

UnprivilegedReadOnly ==
  [][res'.op = "updateRequest" =>
       \A id \in DOMAIN requests, body \in RequestUpdates :
         \/ /\ requests' = requests
            /\ body.status \in {"assigned", "in-progress", "resolved", "cancelled"}
                 => res'.code = 403
         \/ ~updateRequest(Guest1, id, body)
    ]_vars

\* the place of a status on the chain reported, assigned, in-progress, resolved
RequestStage(s) ==
  CASE s = "reported" -> 1
    [] s = "assigned" -> 2
    [] s = "in-progress" -> 3
    [] OTHER -> 4

\* the moves the life cycle has, a move that skips a stage of the chain
\* counted among them: forward on the chain, or to cancelled from a status
\* before resolved
AllowedRequestMoves ==
  {m \in RequestStatuses \X RequestStatuses :
     /\ m[1] \notin {"resolved", "cancelled"}
     /\ \/ m[2] = "cancelled"
        \/ RequestStage(m[2]) > RequestStage(m[1])}

\* C19 (as claimed): the status of a maintenance request only moves along
\* reported, assigned, in-progress, resolved, or to cancelled from one of the
\* first three, so that a resolved or cancelled request keeps its status; and
\* an updateRequest with status 'resolved' on a request that is resolved
\* already changes neither its resolvedAt nor any room.
RequestStatusChain ==
  [][/\ \A i \in DOMAIN requests :
          requests'[i].status # requests[i].status
          => <<requests[i].status, requests'[i].status>> \in AllowedRequestMoves
     /\ res'.op = "updateRequest" =>
          \A id \in {i \in DOMAIN requests : requests[i].status = "resolved"},
             body \in {b \in RequestUpdates : b.status = "resolved"},
             user \in {Guest1, Manager, Admin} :
            \/ /\ requests'[id].resolvedAt = requests[id].resolvedAt
               /\ rooms' = rooms
            \/ ~updateRequest(user, id, body)
    ]_vars

\* C19, its last part alone: an updateRequest with status 'resolved' on a
\* resolved request leaves its resolvedAt as it was.
ResolvedAtStampedOnce ==
  [][\A i \in DOMAIN requests :
       requests[i].status = "resolved"
       => requests'[i].resolvedAt = requests[i].resolvedAt
    ]_vars

\* the moves of the status of a task that the life cycle has: pending to
\* in-progress, either of them to completed, either of them to cancelled
AllowedTaskMoves ==
  {<<"pending", "in-progress">>, <<"pending", "completed">>,
   <<"in-progress", "completed">>, <<"pending", "cancelled">>,
   <<"in-progress", "cancelled">>}

\* C20 (as claimed): the status of a housekeeping task only moves from
\* pending to in-progress to completed, or to cancelled from pending or
\* in-progress; no step changes the status of a completed or cancelled task.
TaskStatusChain ==
  [][\A i \in DOMAIN tasks :
       tasks'[i].status # tasks[i].status
       => <<tasks[i].status, tasks'[i].status>> \in AllowedTaskMoves
    ]_vars

\* the fields of a task a worker's update may not change
SameButStatusAndNotes(t, u) ==
  /\ u.roomId = t.roomId
  /\ u.assignedTo = t.assignedTo
  /\ u.taskType = t.taskType
  /\ u.scheduledDate = t.scheduledDate
  /\ u.priority = t.priority
  /\ u.createdAt = t.createdAt

\* C21 (as claimed): a housekeeping worker can modify only the tasks assigned
\* to them, and only their status and notes. An updateTask by a worker on a
\* task assigned to another user or to nobody is answered 403 and changes no
\* task and no room; on a task assigned to the worker it changes no field
\* other than status, notes, completedDate and updatedAt.
WorkerOnlyOwnTasks ==
  [][res'.op = "updateTask" =>
       \A id \in DOMAIN tasks, body \in TaskUpdates,
          user \in {Housekeeper1, Housekeeper2} :
         \/ IF tasks[id].assignedTo # user._id
              THEN /\ res'.code = 403
                   /\ tasks' = tasks
                   /\ rooms' = rooms
              ELSE SameButStatusAndNotes(tasks[id], tasks'[id])
         \/ ~updateTask(user, id, body)
    ]_vars

\* C22 (as claimed): completedDate is stamped only if it is unset. An
\* updateTask with status 'completed', by a worker or by a manager, on a task
\* that has a completedDate leaves that completedDate as it was.
CompletedDateStampedOnce ==
  [][res'.op = "updateTask" =>
       \A id \in {i \in DOMAIN tasks : tasks[i].completedDate # Absent},
          body \in {b \in TaskUpdates : b.status = "completed"},
          user \in {Housekeeper1, Housekeeper2, Manager} :
         \/ tasks'[id].completedDate = tasks[id].completedDate
         \/ ~updateTask(user, id, body)
    ]_vars

\* the room status that the handler of an operation writes
RoomWriteOf(op) ==
  CASE op = "createReservation" -> "reserved"
    [] op = "checkIn" -> "occupied"
    [] op = "checkOut" -> "cleaning"
    [] OTHER -> "none"

\* no handler is suspended at an await
Quiet == \A p \in DOMAIN handlers : handlers[p].pc \in {"idle", "done"}

\* C23 (as claimed): when the handlers of createReservation, checkIn and
\* checkOut on room 1 interleave at their storage calls, then once they have
\* all returned the room has the status written by the handler whose
\* reservation write was committed last.
ChainAppliedInCommitOrder ==
  Quiet =>
    \A p \in DOMAIN handlers :
      (handlers[p].seq > 0 /\ handlers[p].seq = NextSeq - 1)
        => rooms[1].status = RoomWriteOf(handlers[p].op)

\* C25: a handler of createReservation, checkIn or checkOut reaches its
\* dispatches only after its reservation write and its room.save() have
\* completed, and the step in which the dispatches are sent or fail answers
\* 201 or 200 and leaves the reservations and the rooms as they were.
DispatchIsolated ==
  /\ [](\A p \in DOMAIN handlers :
          (handlers[p].pc = "dispatch" \/ handlers[p].dispatch # "none")
            => handlers[p].seq > 0 /\ handlers[p].roomSaved)
  /\ [][\A p \in DOMAIN handlers :
          (handlers[p].pc = "dispatch" /\ handlers'[p].pc = "done")
            => /\ handlers'[p].res.code \in {200, 201}
               /\ handlers'[p].dispatch \in {"sent", "failed"}
               /\ rooms' = rooms
               /\ reservations' = reservations]_vars

\* a checkIn whose notification failed has answered 200, the reservation is
\* checked in and the room occupied
DispatchIsolatedWitness ==
  \E p \in DOMAIN handlers :
    /\ handlers[p].op = "checkIn"
    /\ handlers[p].pc = "done"
    /\ handlers[p].dispatch = "failed"
    /\ handlers[p].res = Response("checkIn", 200, "ok")
    /\ reservations[handlers[p].id].status = "checked-in"
    /\ rooms[1].status = "occupied"

\* C24 (as claimed): a handler of createReservation, checkIn or checkOut that
\* answers 500 because a storage call failed has committed neither its
\* reservation write nor its room write.
FailureCommitsNothing ==
  \A p \in DOMAIN handlers :
    (handlers[p].pc = "done" /\ handlers[p].res.code = 500)
      => handlers[p].seq = 0 /\ ~handlers[p].roomSaved

\* the handler that takes the step
Steps(p) == handlers'[p] # handlers[p]

\* the room status that a completion or a resolution replaces
StatusReplacedBy(op) == IF op = "updateTask" THEN "cleaning" ELSE "maintenance"

\* C26 (as claimed): when a cleaning-task completion or an issue resolution
\* is in flight together with checkIn, createReservation or an urgent
\* createRequest on room 1, the step in which it writes 'available' replaces
\* the status that it tested ('cleaning', 'maintenance'), never a status that
\* another handler has written since.
StaleNeverClobbers ==
  [][\A p \in DOMAIN handlers :
       (/\ handlers[p].op \in {"updateTask", "updateRequest"}
        /\ Steps(p)
        /\ rooms'[1].status = "available"
        /\ rooms[1].status # "available")
         => rooms[1].status = StatusReplacedBy(handlers[p].op)]_vars

\* C27: an updateReservation with status 'cancelled' that answers 200 leaves
\* the status of every room as it was.
CancelLeavesRooms ==
  [][res'.op = "updateReservation" =>
       \A id \in DOMAIN reservations,
          body \in {b \in UpdateBodies : b.status = "cancelled"},
          user \in {Guest1, Receptionist} :
         \/ rooms' = rooms
         \/ res'.code # 200
         \/ ~updateReservation(user, id, body)]_vars

\* a reservation was cancelled and its room is still 'reserved'
CancelLeavesRoomsWitness ==
  /\ res = Response("updateReservation", 200, "ok")
  /\ \E i \in DOMAIN reservations :
       /\ reservations[i].status = "cancelled"
       /\ rooms[reservations[i].roomId].status = "reserved"
       /\ \A j \in DOMAIN reservations : j # i => reservations[j].roomId # reservations[i].roomId

\* the updates that leave a completed task completed
KeepCompleted == {b \in TaskUpdates : b.status \in {NoString, "completed"}}

\* C28 (as claimed): an updateTask on a cleaning task that was completed
\* before the call and whose status the call does not change leaves every
\* room as it was.
CleaningDoneOnlyOnCompletion ==
  [][res'.op = "updateTask" =>
       \A id \in {i \in DOMAIN tasks : isCompletedCleaning(tasks[i])},
          body \in KeepCompleted,
          user \in {Housekeeper1, Housekeeper2, Manager} :
         \/ rooms' = rooms
         \/ ~updateTask(user, id, body)]_vars

\* C29 (as claimed): whatever handlers have run, a room that is 'available'
\* has no reservation that is 'checked-in'.
AvailableMeansVacant ==
  \A r \in DOMAIN rooms :
    rooms[r].status = "available" =>
      ~\E i \in DOMAIN reservations :
          reservations[i].roomId = r /\ reservations[i].status = "checked-in"

====
